---- MODULE Spec2Model ----
(***************************************************************************)
(* Model of the FastAPI service of safer-streets-apps: the start-up        *)
(* routine init_db (startup.py), which builds or loads the two crime count *)
(* tables through month-keyed parquet cache files, and the endpoints       *)
(* /hotspots, /hex_counts and /census_counts (app.py) with the SQL they    *)
(* run (sql.py).                                                           *)
(*                                                                         *)
(* Tables are SQL relations: sets of rows (records).  A month of the data  *)
(* is the number of calendar months since year 0 (12 * year + month - 1);  *)
(* a month of a request is the string YYYY-MM, a sequence of characters.   *)
(* A spatial unit id is a positive integer; NULL is SQL's NULL.            *)
(***************************************************************************)
EXTENDS Integers, Sequences, FiniteSets, Bags, TLC

\* ------------------------------------------------------------------ bounds
NUnits == 3          \* spatial units per catalog (hex200, OA21_boundaries)
MaxIncidents == 3    \* incidents in the crime data of a ranking check
MaxN == 2            \* largest n_hotspots requested
MaxLookback == 2     \* largest lookback requested (the endpoint allows 1..12)
Month0 == 24305      \* latest_month() when the model starts (2025-06)
NProcs == 2          \* processes that run init_db on the same data directory
MaxAdvance == 1      \* times the latest available month advances
StartMonths == 12    \* months before Month0 in which the Streamlit app can start

\* --------------------------------------------------------------- constants
N_MONTHS == 36
NULL == 0

\* ------------------------------------------------------------ generic SQL
RECURSIVE SumCount(_)
\* SUM(count) over a set of rows
SumCount(rows) ==
    IF rows = {} THEN 0
    ELSE LET r == CHOOSE x \in rows : TRUE
         IN  r.count + SumCount(rows \ {r})

\* Sort keys.  A row is sorted under a tuple of integers, one per ORDER BY
\* term, compared lexicographically ascending: a DESC term is negated, and a
\* NULL under ASC takes a key above every id (DuckDB's default NULLS LAST).
Desc(x) == 0 - x
AscNullsLast(u) == IF u = NULL THEN NUnits + 1 ELSE u

RECURSIVE LexLess(_, _)
LexLess(a, b) ==
    IF a = <<>> \/ b = <<>> THEN FALSE
    ELSE IF Head(a) # Head(b) THEN Head(a) < Head(b)
    ELSE LexLess(Tail(a), Tail(b))

RECURSIVE Orderings(_)
\* ORDER BY over a set S of [key, row] pairs: every sequence of the rows in
\* which no row comes after a row whose key is strictly smaller; rows equal
\* on every sort key come in any order.
Orderings(S) ==
    IF S = {} THEN {<<>>}
    ELSE UNION { { <<x.row>> \o t : t \in Orderings(S \ {x}) } :
                 x \in { y \in S : \A z \in S : ~LexLess(z.key, y.key) } }

\* LIMIT n
Limit(s, n) == IF Len(s) <= n THEN s ELSE SubSeq(s, 1, n)

Range(s) == { s[i] : i \in 1..Len(s) }

\* ------------------------------------------------- catalogs and geometry
\* Spatial unit ids of the hex grid and of the census output areas.
hex200 == 1..NUnits
OA21_boundaries == 1..NUnits

\* ST_Area(h.geometry) / 1000000 of an output area: areas differ between
\* some areas and agree between others.
Area(o) == 1 + (o % 2)

\* Where an incident's point can lie: 0 is a point no unit covers (outside
\* the grid, or a record without coordinates), 1..NUnits is the interior of
\* that unit, NUnits + 1 is a point on the edge shared by hexes 1 and 2.
Locations == 0..(NUnits + 1)

\* The rows of hex200 / OA21_boundaries h with ST_Intersects(h.geometry, point)
HexesAt(l) == IF l = 0 THEN {} ELSE IF l <= NUnits THEN {l} ELSE {1, 2}
OAsAt(l) == IF l = 0 THEN {} ELSE IF l <= NUnits THEN {l} ELSE {1}

\* PFA23NM values a request can name; BTP has no row in force_boundaries.
Forces == {"F1", "F2", "BTP"}
NoForce == "None"

\* The PFA23NM values of the rows of force_boundaries
force_boundaries == {"F1", "F2"}

\* The units h with ST_Intersects(h.geometry, ST_Union_Agg(force geometry)):
\* unit 1 straddles the border of F1 and F2; for a force without boundary the
\* union is NULL and no unit is selected.
UnitsInForce(f) ==
    IF f = "F1" THEN (1..NUnits) \ {NUnits}
    ELSE IF f = "F2" THEN (1..NUnits) \ {2}
    ELSE {}

\* get_args(CrimeType): the category allowlist
CrimeType == {"burglary", "robbery"}

\* ------------------------------------------------------------ aggregation
RECURSIVE Copies(_, _)
\* number of records of the bag `data` among the record kinds T
Copies(T, data) ==
    IF T = {} THEN 0
    ELSE LET t == CHOOSE x \in T : TRUE
         IN  CopiesIn(t, data) + Copies(T \ {t}, data)

\* h RIGHT JOIN crime_data c ON ST_Intersects(h.geometry, c.geometry): the
\* spatial_unit values an incident at location l is joined with; NULL when
\* no unit matches (the RIGHT JOIN keeps the incident).
JoinUnits(kind, l) ==
    LET at == IF kind = "hex" THEN HexesAt(l) ELSE OAsAt(l)
    IN  IF at = {} THEN {NULL} ELSE at

\* CREATE TABLE ... AS SELECT spatial_unit, crime_type, month, COUNT(c.month)
\* ... GROUP BY spatial_unit, month, crime_type
Aggregate(kind, data) ==
    LET T == BagToSet(data)
        groups == UNION { { <<u, t.month, t.crime_type>> :
                            u \in JoinUnits(kind, t.loc) } : t \in T }
    IN  { [spatial_unit |-> g[1], crime_type |-> g[3], month |-> g[2],
           count |-> Copies({ t \in T : /\ t.month = g[2]
                                        /\ t.crime_type = g[3]
                                        /\ g[1] \in JoinUnits(kind, t.loc) },
                            data)] : g \in groups }

AGGREGATE_TO_HEX(data) == Aggregate("hex", data)
AGGREGATE_TO_OA21(data) == Aggregate("oa", data)

\* ----------------------------------------------------------------- months
\* A month parameter arrives as a string; a string is the sequence of its
\* characters.
DigitChars == <<"0", "1", "2", "3", "4", "5", "6", "7", "8", "9">>
IsDigit(c) == \E d \in 1..Len(DigitChars) : DigitChars[d] = c
DigitValue(c) == (CHOOSE d \in 1..Len(DigitChars) : DigitChars[d] = c) - 1
DigitChar(d) == DigitChars[d + 1]

\* Query(pattern=r"^\d{4}-(0[1-9]|1[0-2])$")
MonthPattern(s) ==
    /\ Len(s) = 7
    /\ \A i \in 1..4 : IsDigit(s[i])
    /\ s[5] = "-"
    /\ \/ s[6] = "0" /\ IsDigit(s[7]) /\ s[7] # "0"
       \/ s[6] = "1" /\ s[7] \in {"0", "1", "2"}

\* Month: a (year, month) pair
Month(y, m) == [year |-> y, month |-> m]

\* Month.parse_str("YYYY-MM")
parse_str(s) ==
    Month(1000 * DigitValue(s[1]) + 100 * DigitValue(s[2])
            + 10 * DigitValue(s[3]) + DigitValue(s[4]),
          10 * DigitValue(s[6]) + DigitValue(s[7]))

\* str(Month): "YYYY-MM"
MonthStr(m) ==
    <<DigitChar(m.year \div 1000), DigitChar((m.year \div 100) % 10),
      DigitChar((m.year \div 10) % 10), DigitChar(m.year % 10), "-",
      DigitChar(m.month \div 10), DigitChar(m.month % 10)>>

\* The month before m: December of the year before when m is a January.
MonthBefore(m) ==
    IF m.month = 1 THEN Month(m.year - 1, 12) ELSE Month(m.year, m.month - 1)

\* The value of the cube's month column that str(m) is equal to: the months
\* of the cube are numbered 12 * year + month - 1.
MonthIndex(m) == 12 * m.year + m.month - 1
MonthOfIndex(i) == Month(i \div 12, (i % 12) + 1)

RECURSIVE Take(_, _)
\* Itr(monthgen(m, backwards=True)).take(k): m first, then the months
\* before it
Take(m, k) == IF k <= 0 THEN <<>> ELSE <<m>> \o Take(MonthBefore(m), k - 1)

\* (mutant) the window taken one month longer
HotspotMonthsOneMore(month, lookback) == Take(parse_str(month), lookback + 1)

\* app.py line 188:
\* Itr(monthgen(Month.parse_str(month), backwards=True)).take(lookback)
HotspotMonths(month, lookback) == Take(parse_str(month), lookback)

\* month = ANY(months): the cube months the strings of `months` are equal to
AnyOf(months) == { MonthIndex(months[i]) : i \in 1..Len(months) }

\* ---------------------------------------------------------------- queries
\* The window of `lookback` months ending at month number `month`, by plain
\* subtraction: what a request's months are measured against.
Window(month, lookback) == { month - i : i \in 0..(lookback - 1) }

\* SELECT unit, SUM(count) ... GROUP BY unit over a set of count rows
SumByUnit(rows) ==
    { [spatial_unit |-> u,
       count |-> SumCount({ r \in rows : r.spatial_unit = u })] :
      u \in { r.spatial_unit : r \in rows } }

\* WHERE crime_type = category AND month = ANY(months)
Selected(counts, category, months) ==
    { r \in counts : r.crime_type = category /\ r.month \in months }

\* (mutant) ORDER BY count DESC alone
CountOnly(rows) ==
    { [key |-> <<Desc(r.count)>>, row |-> r] : r \in rows }

\* ORDER BY count DESC, spatial_unit ASC
CountThenUnit(rows) ==
    { [key |-> <<Desc(r.count), AscNullsLast(r.spatial_unit)>>, row |-> r] :
      r \in rows }

\* The CTE h of NATIONAL_HOTSPOTS_HEX: the count rows (one per unit and
\* month) of the category and months, ORDER BY count DESC, spatial_unit ASC
\* LIMIT n.  The set of row sets the LIMIT can keep.
NationalCTE(counts, category, months, n) ==
    { Range(Limit(s, n)) :
      s \in Orderings(CountThenUnit(Selected(counts, category, months))) }

\* NATIONAL_HOTSPOTS_HEX: SUM(h.count) of the CTE's rows GROUP BY unit, with
\* hex200's wkt RIGHT JOINed (NULL for a unit hex200 lacks), ORDER BY count
\* DESC, spatial_unit ASC.  The set of possible result sequences.
NATIONAL_HOTSPOTS_HEX(counts, category, months, n) ==
    UNION { Orderings(CountThenUnit(
              { [spatial_unit |-> g.spatial_unit, count |-> g.count,
                 wkt |-> g.spatial_unit \in hex200] : g \in SumByUnit(h) })) :
            h \in NationalCTE(counts, category, months, n) }

\* (mutant) the WHERE conditions moved into the join: every hex of the force
\* is kept, with a NULL sum read as 0
ForceHotspotsPadded(counts, force, category, months, n) ==
    LET scope == UnitsInForce(force) \cap hex200
        grouped == { [spatial_unit |-> u,
                      count |-> SumCount({ r \in counts :
                                             /\ r.spatial_unit = u
                                             /\ r.crime_type = category
                                             /\ r.month \in months }),
                      wkt |-> TRUE] : u \in scope }
        keyed == { [key |-> <<Desc(r.count), AscNullsLast(r.spatial_unit)>>,
                    row |-> r] : r \in grouped }
    IN  { Limit(s, n) : s \in Orderings(keyed) }

\* FORCE_HOTSPOTS_HEX: counts RIGHT JOIN the force's hexes, WHERE on the
\* count row's category and month (which drops the hexes without a count
\* row), SUM GROUP BY unit, ORDER BY count DESC, spatial_unit ASC LIMIT n.
FORCE_HOTSPOTS_HEX(counts, force, category, months, n) ==
    LET joined == { r \in Selected(counts, category, months) :
                    r.spatial_unit \in UnitsInForce(force) \cap hex200 }
        grouped == { [spatial_unit |-> g.spatial_unit, count |-> g.count,
                      wkt |-> TRUE] : g \in SumByUnit(joined) }
    IN  { Limit(s, n) : s \in Orderings(CountThenUnit(grouped)) }

RECURSIVE AreaProduct(_)
AreaProduct(S) ==
    IF S = {} THEN 1
    ELSE LET o == CHOOSE x \in S : TRUE IN Area(o) * AreaProduct(S \ {o})

\* count * AreaScale / area is an integer that orders as count / area does.
AreaScale == AreaProduct(OA21_boundaries)

\* (mutant) the density term sorted ascending
CountThenSparsityThenUnit(rows) ==
    { [key |-> <<Desc(r.count), (r.count * AreaScale) \div r.area,
                 AscNullsLast(r.spatial_unit)>>, row |-> r] : r \in rows }

\* ORDER BY count DESC, SUM(count) / area DESC, spatial_unit ASC
CountThenDensityThenUnit(rows) ==
    { [key |-> <<Desc(r.count), Desc((r.count * AreaScale) \div r.area),
                 AscNullsLast(r.spatial_unit)>>, row |-> r] : r \in rows }

\* FORCE_HOTSPOTS_OA: as FORCE_HOTSPOTS_HEX over the output areas, with the
\* area selected and the density as the first tie-break.
FORCE_HOTSPOTS_OA(counts, force, category, months, n) ==
    LET joined == { r \in Selected(counts, category, months) :
                    r.spatial_unit \in UnitsInForce(force) \cap OA21_boundaries }
        grouped == { [spatial_unit |-> g.spatial_unit, count |-> g.count,
                      area |-> Area(g.spatial_unit), wkt |-> TRUE] :
                     g \in SumByUnit(joined) }
    IN  { Limit(s, n) : s \in Orderings(CountThenDensityThenUnit(grouped)) }

\* GeoDataFrame(hotspots[["spatial_unit", "count"]], geometry=...)
\* .set_index("spatial_unit").dropna(): the rows without geometry go.
DropNa(s) == SelectSeq(s, LAMBDA r : r.wkt)

\* the (spatial_unit, count) pairs of the response, in order
Features(s) == [i \in 1..Len(s) |->
                  [spatial_unit |-> s[i].spatial_unit, count |-> s[i].count]]

\* ------------------------------------------------------------------ state
VARIABLES
    latest,            \* what latest_month() returns now
    files,             \* duckdb_cache/: cache key -> file
    pc,                \* per process: where it is in init_db
    timeline,          \* per process: the month its timeline ends at
    crime_data,        \* per process: table crime_data (a bag of incidents)
    cache_file,        \* per process and kind: the local variable cache_file
    joined,            \* per process: the kinds it ran the aggregation for
    crime_counts_hex,  \* per process: table crime_counts_hex
    crime_counts_oa,   \* per process: table crime_counts_oa
    request,           \* the query last served, with what the handler ran
    response,          \* the body of its response: rows in order, or an error
    status,            \* the HTTP status of its response
    session            \* the Streamlit app: session state, caches, the page run

vars == <<latest, files, pc, timeline, crime_data, cache_file, joined,
          crime_counts_hex, crime_counts_oa, request, response, status,
          session>>

dbvars == <<latest, files, pc, timeline, crime_data, cache_file, joined,
            crime_counts_hex, crime_counts_oa, session>>

Procs == 1..NProcs
Kinds == {"hex", "oa"}

\* duckdb_cache/crime_counts_{kind}_{month}.parquet
CacheKey(kind, month) == [kind |-> kind, month |-> month]
Keys == { CacheKey(k, m) : k \in Kinds, m \in Month0..(Month0 + MaxAdvance) }
NoKey == CacheKey("none", 0)

\* A cache file: the processes that have it open for writing, whether its
\* bytes are torn (a writer died before closing it, or two writers wrote it
\* at once), and the rows written.  Absent: no such file.
Absent == [exists |-> FALSE]
File(open, torn, rows) ==
    [exists |-> TRUE, open |-> open, torn |-> torn, rows |-> rows]

\* read_parquet succeeds on a file that was written completely
Readable(f) == f.exists /\ f.open = {} /\ ~f.torn

RECURSIVE fetchdf(_)
\* con.sql("SELECT * FROM t").fetchdf(): the rows of the table in a sequence
fetchdf(table) ==
    IF table = {} THEN <<>>
    ELSE LET r == CHOOSE x \in table : TRUE
         IN  <<r>> \o fetchdf(table \ {r})

\* (mutant) the rows without a spatial unit are lost on the way back
ReadParquetDropNull(f) == { r \in Range(f.rows) : r.spatial_unit # NULL }

\* CREATE TABLE t AS SELECT * FROM read_parquet(cache_file)
read_parquet(f) == Range(f.rows)

\* ----------------------------------------------------------- the raw data
Incident(l, m, c) == [loc |-> l, month |-> m, crime_type |-> c]

\* extracted/{month}*street.parquet, all months: the raw records.  The
\* oldest month of the first timeline leaves the window when the latest
\* month advances; one record has a category outside the allowlist, one has
\* no unit, one lies on a shared edge.
RawData ==
    SetToBag({ Incident(1, Month0 - N_MONTHS + 1, "burglary"),
               Incident(2, Month0, "burglary"),
               Incident(0, Month0, "robbery"),
               Incident(1, Month0, "drugs"),
               Incident(NUnits + 1, Month0 + 1, "burglary") })
    (+) SetToBag({ Incident(2, Month0, "burglary") })

\* Itr(monthgen(latest_month(), backwards=True)).take(N_MONTHS).rev()
Timeline(end) == (end - N_MONTHS + 1)..end

RECURSIVE BagOf(_, _)
\* the sub-bag of `data` over the record kinds T
BagOf(T, data) ==
    IF T = {} THEN EmptyBag
    ELSE LET t == CHOOSE x \in T : TRUE
         IN  [u \in {t} |-> CopiesIn(t, data)] (+) BagOf(T \ {t}, data)

\* (mutant) every category of the files is loaded
LoadCrimeAnyType(end) ==
    BagOf({ t \in BagToSet(RawData) : t.month \in Timeline(end) }, RawData)

\* CREATE TABLE crime_data AS SELECT ... FROM read_parquet(files of the
\* timeline's months) WHERE crime_type = ANY(CrimeType)
LoadCrime(end) ==
    BagOf({ t \in BagToSet(RawData) :
            t.month \in Timeline(end) /\ t.crime_type \in CrimeType }, RawData)

\* ------------------------------------------------------------- init_db
At(step, kind) == [step |-> step, kind |-> kind]
Idle == At("idle", "none")
Serving == At("serving", "none")
Failed == At("failed", "none")
Dead == At("dead", "none")

Table(p, kind) == IF kind = "hex" THEN crime_counts_hex[p] ELSE crime_counts_oa[p]

\* lines 14-65: catalogs, timeline, crime_data
LoadCrimeData(p) ==
    /\ pc[p] = Idle
    /\ timeline' = [timeline EXCEPT ![p] = latest]
    /\ crime_data' = [crime_data EXCEPT ![p] = LoadCrime(latest)]
    /\ pc' = [pc EXCEPT ![p] = At("check", "hex")]
    /\ UNCHANGED <<latest, files, cache_file, joined, crime_counts_hex,
                   crime_counts_oa, request, response,
                   status, session>>

\* (mutant) the cache is not consulted: the aggregation always runs
CheckCacheAlwaysBuild(p, kind) ==
    /\ pc[p] = At("check", kind)
    /\ cache_file' = [cache_file EXCEPT ![p][kind] = CacheKey(kind, latest)]
    /\ pc' = [pc EXCEPT ![p] = At("aggregate", kind)]
    /\ UNCHANGED <<latest, files, timeline, crime_data, joined,
                   crime_counts_hex, crime_counts_oa, request, response,
                   status, session>>

\* lines 70-71 and 79-80: cache_file = ...{latest_month()}.parquet;
\* if not cache_file.exists()
CheckCache(p, kind) ==
    /\ pc[p] = At("check", kind)
    /\ cache_file' = [cache_file EXCEPT ![p][kind] = CacheKey(kind, latest)]
    /\ pc' = [pc EXCEPT ![p] =
                IF ~files[CacheKey(kind, latest)].exists
                THEN At("aggregate", kind) ELSE At("load", kind)]
    /\ UNCHANGED <<latest, files, timeline, crime_data, joined,
                   crime_counts_hex, crime_counts_oa, request, response,
                   status, session>>

\* lines 73 and 82: con.execute(sql.AGGREGATE_TO_...)
RunAggregate(p, kind) ==
    /\ pc[p] = At("aggregate", kind)
    /\ IF kind = "hex"
       THEN /\ crime_counts_hex' =
                 [crime_counts_hex EXCEPT ![p] = AGGREGATE_TO_HEX(crime_data[p])]
            /\ UNCHANGED crime_counts_oa
       ELSE /\ crime_counts_oa' =
                 [crime_counts_oa EXCEPT ![p] = AGGREGATE_TO_OA21(crime_data[p])]
            /\ UNCHANGED crime_counts_hex
    /\ joined' = [joined EXCEPT ![p] = @ \cup {kind}]
    /\ pc' = [pc EXCEPT ![p] = At("write", kind)]
    /\ UNCHANGED <<latest, files, timeline, crime_data, cache_file,
                   request, response, status, session>>

\* lines 74 and 83, to_parquet opening the file: it is created or truncated
OpenCache(p, kind) ==
    /\ pc[p] = At("write", kind)
    /\ LET f == files[cache_file[p][kind]]
       IN  files' = [files EXCEPT ![cache_file[p][kind]] =
                       IF f.exists
                       THEN File(f.open \cup {p}, f.open # {}, <<>>)
                       ELSE File({p}, FALSE, <<>>)]
    /\ pc' = [pc EXCEPT ![p] = At("writing", kind)]
    /\ UNCHANGED <<latest, timeline, crime_data, cache_file, joined,
                   crime_counts_hex, crime_counts_oa, request, response,
                   status, session>>

\* lines 74 and 83, to_parquet done: the rows are in the file
CloseCache(p, kind) ==
    /\ pc[p] = At("writing", kind)
    /\ LET f == files[cache_file[p][kind]]
       IN  files' = [files EXCEPT ![cache_file[p][kind]] =
                       File(f.open \ {p}, f.torn, fetchdf(Table(p, kind)))]
    /\ pc' = [pc EXCEPT ![p] =
                IF kind = "hex" THEN At("check", "oa") ELSE Serving]
    /\ UNCHANGED <<latest, timeline, crime_data, cache_file, joined,
                   crime_counts_hex, crime_counts_oa, request, response,
                   status, session>>

\* lines 77 and 86: CREATE TABLE ... AS SELECT * FROM read_parquet(cache_file);
\* a file that cannot be read raises, and init_db has no handler
LoadCache(p, kind) ==
    /\ pc[p] = At("load", kind)
    /\ LET f == files[cache_file[p][kind]]
       IN  IF Readable(f)
           THEN /\ IF kind = "hex"
                   THEN /\ crime_counts_hex' =
                             [crime_counts_hex EXCEPT ![p] = read_parquet(f)]
                        /\ UNCHANGED crime_counts_oa
                   ELSE /\ crime_counts_oa' =
                             [crime_counts_oa EXCEPT ![p] = read_parquet(f)]
                        /\ UNCHANGED crime_counts_hex
                /\ pc' = [pc EXCEPT ![p] =
                            IF kind = "hex" THEN At("check", "oa") ELSE Serving]
           ELSE /\ pc' = [pc EXCEPT ![p] = Failed]
                /\ UNCHANGED <<crime_counts_hex, crime_counts_oa>>
    /\ UNCHANGED <<latest, files, timeline, crime_data, cache_file, joined,
                   request, response, status, session>>

\* The process is killed while to_parquet is writing: the file stays as far
\* as it was written.  (Killed anywhere else, the process leaves nothing
\* behind that differs from its not having taken its next step.)
Kill(p) ==
    /\ pc[p].step = "writing"
    /\ files' = [files EXCEPT ![cache_file[p][pc[p].kind]] =
                   File(@.open \ {p}, TRUE, @.rows)]
    /\ pc' = [pc EXCEPT ![p] = Dead]
    /\ UNCHANGED <<latest, timeline, crime_data, cache_file, joined,
                   crime_counts_hex, crime_counts_oa, request, response,
                   status, session>>

\* New data arrives: latest_month() returns the next month from now on.
AdvanceMonth ==
    /\ latest < Month0 + MaxAdvance
    /\ latest' = latest + 1
    /\ UNCHANGED <<files, pc, timeline, crime_data, cache_file, joined,
                   crime_counts_hex, crime_counts_oa, request, response,
                   status, session>>

\* A served request: the process that served it, the endpoint and its
\* parameters, and what the handler did with them (the months it generated
\* and the SQL it ran).
Request(p, endpoint, geography, force, category, month, lookback, n, months, query) ==
    [proc |-> p, endpoint |-> endpoint, geography |-> geography,
     force |-> force, category |-> category, month |-> month,
     lookback |-> lookback, n_hotspots |-> n, months |-> months,
     query |-> query]

\* the Streamlit app is not running
NoSession == [page |-> "none"]

NoRequest == Request(0, "none", "none", NoForce, "none", <<>>, 0, 0, <<>>, "none")

Init ==
    /\ latest = Month0
    /\ files = [k \in Keys |-> Absent]
    /\ pc = [p \in Procs |-> Idle]
    /\ timeline = [p \in Procs |-> 0]
    /\ crime_data = [p \in Procs |-> EmptyBag]
    /\ cache_file = [p \in Procs |-> [k \in Kinds |-> NoKey]]
    /\ joined = [p \in Procs |-> {}]
    /\ crime_counts_hex = [p \in Procs |-> {}]
    /\ crime_counts_oa = [p \in Procs |-> {}]
    /\ request = NoRequest
    /\ response = <<>>
    /\ status = 0
    /\ session = NoSession

Next ==
    \/ \E p \in Procs : LoadCrimeData(p)
    \/ \E p \in Procs, kind \in Kinds : CheckCache(p, kind)
    \/ \E p \in Procs, kind \in Kinds : RunAggregate(p, kind)
    \/ \E p \in Procs, kind \in Kinds : OpenCache(p, kind)
    \/ \E p \in Procs, kind \in Kinds : CloseCache(p, kind)
    \/ \E p \in Procs, kind \in Kinds : LoadCache(p, kind)
    \/ \E p \in Procs : Kill(p)
    \/ AdvanceMonth

Spec == Init /\ [][Next]_vars

\* ------------------------------------------------------------- endpoints
\* JSONResponse(status_code=400, content={"error": ...})
ErrorBody(error) == <<[error |-> error]>>

\* CensusGeography
Geographies == {"OA21", "LSOA21", "MSOA21"}

\* HEX_COUNTS / CENSUS_COUNTS: SELECT c.spatial_unit, c.month, c.count FROM
\* counts c RIGHT JOIN (the units of the force) h ON the unit WHERE
\* c.crime_type = category.  The WHERE drops the units without a count row.
CountsOf(counts, units, category) ==
    { [spatial_unit |-> r.spatial_unit, month |-> r.month, count |-> r.count] :
      r \in { c \in counts : /\ c.spatial_unit \in units
                             /\ c.crime_type = category } }

HEX_COUNTS(counts, force, category) ==
    CountsOf(counts, UnitsInForce(force) \cap hex200, category)

CENSUS_COUNTS(counts, force, category) ==
    CountsOf(counts, UnitsInForce(force) \cap OA21_boundaries, category)

\* .fetch_arrow_table().to_pylist(): the rows in a list; the query has no
\* ORDER BY, so in any order
to_pylist(rows) == Orderings({ [key |-> <<>>, row |-> r] : r \in rows })

\* The query parameters of /hotspots that pass FastAPI's validation:
\* month: Query(pattern=...), lookback: Query(ge=1, le=12), n_hotspots:
\* Query(ge=1)
ValidHotspots(month, lookback, n) ==
    /\ MonthPattern(month)
    /\ 1 <= lookback /\ lookback <= 12
    /\ 1 <= n

\* app.py, hotspots(), lines 190-202: the national or the force query run on
\* the process's connection with the months, then the rows without geometry
\* dropped.  The set of responses the request can get.
HotspotsResponses(p, force, category, months, n) ==
    LET rows == IF force = NoForce
                THEN NATIONAL_HOTSPOTS_HEX(crime_counts_hex[p], category,
                                           AnyOf(months), n)
                ELSE FORCE_HOTSPOTS_HEX(crime_counts_hex[p], force, category,
                                        AnyOf(months), n)
    IN  { Features(DropNa(s)) : s \in rows }

\* the SQL that hotspots() picks (lines 190-195)
HotspotsQuery(force) ==
    IF force = NoForce THEN "NATIONAL_HOTSPOTS_HEX" ELSE "FORCE_HOTSPOTS_HEX"

\* (mutant) the handler runs before init_db has finished
hotspotsAtAnyTime(p, force, category, month, lookback, n) ==
    /\ pc[p] \notin {Idle, Dead, Failed}
    /\ IF ValidHotspots(month, lookback, n)
       THEN LET months == HotspotMonths(month, lookback)
            IN  /\ request' = Request(p, "hotspots", "none", force, category,
                                      month, lookback, n, months,
                                      HotspotsQuery(force))
                /\ response' \in HotspotsResponses(p, force, category, months, n)
                /\ status' = 200
       ELSE /\ request' = Request(p, "hotspots", "none", force, category,
                                  month, lookback, n, <<>>, "none")
            /\ response' = ErrorBody("Invalid input")
            /\ status' = 400
    /\ UNCHANGED dbvars

\* (mutant) lookback and n_hotspots are not validated
hotspotsUnvalidated(p, force, category, month, lookback, n) ==
    /\ pc[p] = Serving
    /\ IF MonthPattern(month)
       THEN LET months == HotspotMonths(month, lookback)
            IN  /\ request' = Request(p, "hotspots", "none", force, category,
                                      month, lookback, n, months,
                                      HotspotsQuery(force))
                /\ response' \in HotspotsResponses(p, force, category, months, n)
                /\ status' = 200
       ELSE /\ request' = Request(p, "hotspots", "none", force, category,
                                  month, lookback, n, <<>>, "none")
            /\ response' = ErrorBody("Invalid input")
            /\ status' = 400
    /\ UNCHANGED dbvars

\* (mutant) the handler keeps the selected rows in the count table
hotspotsInPlace(p, force, category, month, lookback, n) ==
    /\ pc[p] = Serving
    /\ IF ValidHotspots(month, lookback, n)
       THEN LET months == HotspotMonths(month, lookback)
            IN  /\ request' = Request(p, "hotspots", "none", force, category,
                                      month, lookback, n, months,
                                      HotspotsQuery(force))
                /\ response' \in HotspotsResponses(p, force, category, months, n)
                /\ status' = 200
                /\ crime_counts_hex' =
                     [crime_counts_hex EXCEPT ![p] =
                        Selected(@, category, AnyOf(months))]
       ELSE /\ request' = Request(p, "hotspots", "none", force, category,
                                  month, lookback, n, <<>>, "none")
            /\ response' = ErrorBody("Invalid input")
            /\ status' = 400
            /\ UNCHANGED crime_counts_hex
    /\ UNCHANGED <<latest, files, pc, timeline, crime_data, cache_file, joined,
                   crime_counts_oa, session>>

\* app.py, hotspots() (lines 174-204) behind lifespan (lines 32-37: init_db
\* returns before the application takes requests) and the handler of
\* RequestValidationError (lines 53-58)
hotspots(p, force, category, month, lookback, n) ==
    /\ pc[p] = Serving
    /\ IF ValidHotspots(month, lookback, n)
       THEN LET months == HotspotMonths(month, lookback)
            IN  /\ request' = Request(p, "hotspots", "none", force, category,
                                      month, lookback, n, months,
                                      HotspotsQuery(force))
                /\ response' \in HotspotsResponses(p, force, category, months, n)
                /\ status' = 200
       ELSE /\ request' = Request(p, "hotspots", "none", force, category,
                                  month, lookback, n, <<>>, "none")
            /\ response' = ErrorBody("Invalid input")
            /\ status' = 400
    /\ UNCHANGED dbvars

\* app.py, hex_counts() (lines 153-156)
hex_counts(p, force, category) ==
    /\ pc[p] = Serving
    /\ request' = Request(p, "hex_counts", "none", force, category, <<>>, 0, 0,
                          <<>>, "HEX_COUNTS")
    /\ response' \in to_pylist(HEX_COUNTS(crime_counts_hex[p], force, category))
    /\ status' = 200
    /\ UNCHANGED dbvars

\* app.py, census_counts() (lines 159-171); the ValueError goes to the
\* handler of Exception (lines 61-63)
census_counts(p, geography, force, category) ==
    /\ pc[p] = Serving
    /\ IF geography # "OA21"
       THEN /\ request' = Request(p, "census_counts", geography, force,
                                  category, <<>>, 0, 0, <<>>, "none")
            /\ response' = ErrorBody("ValueError")
            /\ status' = 400
       ELSE /\ request' = Request(p, "census_counts", geography, force,
                                  category, <<>>, 0, 0, <<>>, "CENSUS_COUNTS")
            /\ response' \in to_pylist(CENSUS_COUNTS(crime_counts_oa[p], force,
                                                     category))
            /\ status' = 200
    /\ UNCHANGED dbvars

\* con.sql(sql.FORCE_HOTSPOTS_OA, params=[force, category, months, n])
force_hotspots_oa(p, force, category, month, lookback, n) ==
    /\ pc[p] = Serving
    /\ LET months == HotspotMonths(month, lookback)
       IN  /\ request' = Request(p, "force_hotspots_oa", "OA21", force, category,
                                 month, lookback, n, months, "FORCE_HOTSPOTS_OA")
           /\ response' \in
                { [i \in 1..Len(s) |->
                     [spatial_unit |-> s[i].spatial_unit,
                      count |-> s[i].count, area |-> s[i].area]] :
                  s \in FORCE_HOTSPOTS_OA(crime_counts_oa[p], force, category,
                                          AnyOf(months), n) }
    /\ status' = 200
    /\ UNCHANGED dbvars

\* ------------------------------------------- the ranking queries on a cube
\* The months the incidents of a ranking check fall in, and the months a
\* request names: the latest month and the one before.
RankMonths == (Month0 - 1)..Month0

\* Burglaries anywhere in those months, and robberies of the latest month
\* in unit 1 and outside every unit.
RankIncidents ==
    { Incident(l, m, "burglary") : l \in 0..NUnits, m \in RankMonths }
        \cup { Incident(l, Month0, "robbery") : l \in {0, 1} }

RECURSIVE BagsUpTo(_)
\* every bag of at most k incidents
BagsUpTo(k) ==
    IF k = 0 THEN {EmptyBag}
    ELSE LET B == BagsUpTo(k - 1)
         IN  B \cup { b (+) SetToBag({t}) : b \in B, t \in RankIncidents }

\* Process 1 has finished init_db at Month0 on some crime data: both tables
\* aggregated, both cache files written.  No request has been served yet.
InitRank ==
    /\ latest = Month0
    /\ pc = [p \in Procs |-> IF p = 1 THEN Serving ELSE Idle]
    /\ timeline = [p \in Procs |-> IF p = 1 THEN Month0 ELSE 0]
    /\ \E data \in BagsUpTo(MaxIncidents) :
         /\ crime_data = [p \in Procs |-> IF p = 1 THEN data ELSE EmptyBag]
         /\ crime_counts_hex =
              [p \in Procs |-> IF p = 1 THEN AGGREGATE_TO_HEX(data) ELSE {}]
         /\ crime_counts_oa =
              [p \in Procs |-> IF p = 1 THEN AGGREGATE_TO_OA21(data) ELSE {}]
         /\ files = [k \in Keys |->
                       IF k.month # Month0 THEN Absent
                       ELSE File({}, FALSE,
                                 fetchdf(IF k.kind = "hex"
                                         THEN AGGREGATE_TO_HEX(data)
                                         ELSE AGGREGATE_TO_OA21(data)))]
    /\ cache_file = [p \in Procs |->
                       [k \in Kinds |-> IF p = 1 THEN CacheKey(k, Month0) ELSE NoKey]]
    /\ joined = [p \in Procs |-> IF p = 1 THEN Kinds ELSE {}]
    /\ request = NoRequest
    /\ response = <<>>
    /\ status = 0
    /\ session = NoSession

\* the strings a request names the months of RankMonths by
RankMonthStrs == { MonthStr(MonthOfIndex(i)) : i \in RankMonths }

\* Month strings at the edges of the pattern: the latest month, a month 13,
\* a month 00, and a month written with one digit.
EdgeMonthStrs ==
    LET y == Month0 \div 12
        m == MonthStr(MonthOfIndex(Month0))
    IN  { m, MonthStr(Month(y, 13)), MonthStr(Month(y, 0)),
          SubSeq(m, 1, 5) \o <<m[7]>> }

\* One request is served on the cube; a request changes no table, so the
\* requests of a run are independent of each other.
ServeHotspots ==
    /\ request = NoRequest
    /\ \E p \in Procs, force \in Forces \cup {NoForce}, category \in CrimeType,
          month \in RankMonthStrs, lookback \in 1..MaxLookback, n \in 1..MaxN :
         hotspots(p, force, category, month, lookback, n)

\* /hotspots with parameters at and beyond the edges of what is accepted
ServeEdgeHotspots ==
    /\ request = NoRequest
    /\ \E p \in Procs, force \in {NoForce, "F1"}, category \in {"burglary"},
          month \in EdgeMonthStrs, lookback \in {0, 12, 13}, n \in {0, 1} :
         hotspots(p, force, category, month, lookback, n)

ServeForceHotspotsOA ==
    /\ request = NoRequest
    /\ \E p \in Procs, force \in Forces, category \in CrimeType,
          month \in RankMonthStrs, lookback \in 1..MaxLookback, n \in 1..MaxN :
         force_hotspots_oa(p, force, category, month, lookback, n)

ServeHexCounts ==
    /\ request = NoRequest
    /\ \E p \in Procs, force \in Forces, category \in CrimeType :
         hex_counts(p, force, category)

ServeCensusCounts ==
    /\ request = NoRequest
    /\ \E p \in Procs, geography \in Geographies, force \in Forces,
          category \in CrimeType :
         census_counts(p, geography, force, category)

NextRank ==
    \/ ServeHotspots
    \/ ServeEdgeHotspots
    \/ ServeForceHotspotsOA
    \/ ServeHexCounts
    \/ ServeCensusCounts

SpecRank == InitRank /\ [][NextRank]_vars

\* ------------------------------------- the service: start-up and requests
\* Requests arrive at the processes while others start up and the latest
\* month advances; a process serves any number of them.
QueryHotspots ==
    \E p \in Procs, force \in {NoForce, "F1"}, n \in {0, 1} :
        hotspots(p, force, "burglary", MonthStr(MonthOfIndex(Month0)), 1, n)

QueryHexCounts ==
    \E p \in Procs, force \in {"F1", "BTP"} : hex_counts(p, force, "burglary")

QueryCensusCounts ==
    \E p \in Procs, geography \in {"OA21", "LSOA21"} :
        census_counts(p, geography, "F1", "burglary")

NextServe ==
    \/ \E p \in Procs : LoadCrimeData(p)
    \/ \E p \in Procs, kind \in Kinds : CheckCache(p, kind)
    \/ \E p \in Procs, kind \in Kinds : RunAggregate(p, kind)
    \/ \E p \in Procs, kind \in Kinds : OpenCache(p, kind)
    \/ \E p \in Procs, kind \in Kinds : CloseCache(p, kind)
    \/ \E p \in Procs, kind \in Kinds : LoadCache(p, kind)
    \/ \E p \in Procs : Kill(p)
    \/ AdvanceMonth
    \/ QueryHotspots
    \/ QueryHexCounts
    \/ QueryCensusCounts

SpecServe == Init /\ [][NextServe]_vars

\* =================================================================== claims
\* What a ranking claim is measured against: plain sums over the window.

\* the months of the request's window, counted back from its month
RequestWindow == Window(MonthIndex(parse_str(request.month)), request.lookback)

\* the summed count of unit u for the request, over the process's hex table
Total(u) ==
    SumCount({ r \in crime_counts_hex[1] :
                 /\ r.spatial_unit = u
                 /\ r.crime_type = request.category
                 /\ r.month \in RequestWindow })

\* the summed count of output area u for the request
TotalOA(u) ==
    SumCount({ r \in crime_counts_oa[1] :
                 /\ r.spatial_unit = u
                 /\ r.crime_type = request.category
                 /\ r.month \in RequestWindow })

\* the units the request ranks: all hexes, or the hexes of the force
Scope == IF request.force = NoForce THEN hex200 ELSE UnitsInForce(request.force)

\* u ranks before v: larger summed count, or equal count and smaller id
RanksBefore(u, v) == Total(u) > Total(v) \/ (Total(u) = Total(v) /\ u < v)

\* the position of unit u among the units of the scope that have a count
Rank(u) ==
    1 + Cardinality({ v \in Scope : Total(v) >= 1 /\ RanksBefore(v, u) })

\* the first n units of the scope by summed count, then id, with their sums
TopN ==
    LET ranked == { u \in Scope : Total(u) >= 1 /\ Rank(u) <= request.n_hotspots }
    IN  [i \in 1..Cardinality(ranked) |->
           LET u == CHOOSE x \in ranked : Rank(x) = i
           IN  [spatial_unit |-> u, count |-> Total(u)]]

IsHotspots == request.endpoint = "hotspots" /\ status = 200
IsNational == IsHotspots /\ request.force = NoForce
IsForce == IsHotspots /\ request.force # NoForce
IsOA == request.endpoint = "force_hotspots_oa"

\* no incident of the crime data lies outside every hex
NoNullRows == \A r \in crime_counts_hex[1] : r.spatial_unit # NULL

\* C1: a national /hotspots query returns exactly the first n units by the
\* count summed over the whole window (descending), ties by unit id
\* ascending: the sum is taken before the truncation to n.  Stated for crime
\* data in which every incident lies in a hex.
C1_NationalTopN ==
    (IsNational /\ NoNullRows) =>
        [i \in 1..Len(response) |-> response[i].spatial_unit]
            = [i \in 1..Len(TopN) |-> TopN[i].spatial_unit]

\* C2: the count reported for every unit of a /hotspots result is the plain
\* sum of the unit's counts over all the months of the window.
C2_CountIsWindowSum ==
    IsHotspots =>
        \A i \in 1..Len(response) :
            response[i].count = Total(response[i].spatial_unit)

\* C3: a force-scoped /hotspots result is ordered by summed count descending,
\* ties by unit id ascending, and is the one sequence the cube and the
\* request determine.
C3_ForceOrder ==
    IsForce =>
        /\ \A i, j \in 1..Len(response) :
             i < j => RanksBefore(response[i].spatial_unit, response[j].spatial_unit)
        /\ response = TopN

\* C3 witness: a force-scoped result holding two units with equal sums.
C3_Witness ==
    /\ IsForce
    /\ Len(response) >= 2
    /\ response[1].count = response[2].count

\* C4: under the density tie-break of the output-area query, the result is
\* ordered by summed count descending, then by count / area descending (the
\* smaller area first), then by unit id ascending.
C4_DensityOrder ==
    IsOA =>
        \A i, j \in 1..Len(response) :
            i < j =>
                LET a == response[i]
                    b == response[j]
                IN  /\ a.count = TotalOA(a.spatial_unit)
                    /\ a.area = Area(a.spatial_unit)
                    /\ b.area = Area(b.spatial_unit)
                    /\ \/ a.count > b.count
                       \/ a.count = b.count /\ a.area < b.area
                       \/ a.count = b.count /\ a.area = b.area
                          /\ a.spatial_unit < b.spatial_unit

\* C4 witness: two areas tie on the count and the smaller area, which has
\* the larger id, comes first.
C4_Witness ==
    /\ IsOA
    /\ Len(response) >= 2
    /\ response[1].count = response[2].count
    /\ response[1].area < response[2].area
    /\ response[1].spatial_unit > response[2].spatial_unit

\* C4 witness of the last tie-break: two areas equal on count and area.
C4_WitnessIdTie ==
    /\ IsOA
    /\ Len(response) >= 2
    /\ response[1].count = response[2].count
    /\ response[1].area = response[2].area

\* C5: a /hotspots result has at most n entries, holds each unit at most
\* once, and holds only units of the catalog whose summed count over the
\* window is at least 1 (it is not padded with zero-count units).
C5_NoPadding ==
    IsHotspots =>
        /\ Len(response) <= request.n_hotspots
        /\ \A i, j \in 1..Len(response) :
             i # j => response[i].spatial_unit # response[j].spatial_unit
        /\ \A i \in 1..Len(response) :
             /\ response[i].spatial_unit \in Scope
             /\ response[i].count >= 1
             /\ Total(response[i].spatial_unit) >= 1

\* C5 witness: fewer units than requested have a count, and the result is
\* shorter than n while units without a count exist in the scope.
C5_Witness ==
    /\ IsHotspots
    /\ 1 <= Len(response)
    /\ Len(response) < request.n_hotspots
    /\ \E u \in Scope : Total(u) = 0

\* ------------------------------------------------------- init_db claims
\* process p has got past the cache of `kind` (its count table is in place)
Past(p, kind) ==
    \/ pc[p] = Serving
    \/ kind = "hex" /\ pc[p].kind = "oa"

\* the step of process p that leaves `at` other than by being killed
Leaves(p, at) == pc[p] = at /\ pc'[p] \notin {at, Dead}

\* C6: for each kind independently, init_db loads the count table verbatim
\* from the cache file of (kind, latest month) when it exists, without
\* running the aggregation, and otherwise runs the aggregation and writes
\* its result under that key; after a successful init_db a cache file
\* exists for both kinds.
C6_Step ==
    \A p \in Procs, kind \in Kinds :
        LET key == CacheKey(kind, latest)
        IN  /\ Leaves(p, At("check", kind)) =>
                /\ cache_file'[p][kind] = key
                /\ pc'[p] = IF files[key].exists THEN At("load", kind)
                                                ELSE At("aggregate", kind)
            /\ (Leaves(p, At("load", kind)) /\ pc'[p] # Failed) =>
                /\ Table(p, kind)' = Range(files[cache_file[p][kind]].rows)
                /\ kind \notin joined'[p]
            /\ Leaves(p, At("aggregate", kind)) =>
                /\ Table(p, kind)' = Aggregate(kind, crime_data[p])
                /\ kind \in joined'[p]
            /\ Leaves(p, At("writing", kind)) =>
                /\ files'[cache_file[p][kind]].exists
                /\ Range(files'[cache_file[p][kind]].rows) = Table(p, kind)

C6_Done ==
    \A p \in Procs :
        pc[p] = Serving =>
            \A kind \in Kinds :
                /\ cache_file[p][kind].kind = kind
                /\ files[cache_file[p][kind]].exists

C6_CacheOrBuild == [][C6_Step]_vars /\ []C6_Done

\* C6 witness: one process has finished init_db having built both tables,
\* another having loaded both from the cache.
C6_Witness ==
    \E p, q \in Procs :
        /\ pc[p] = Serving /\ joined[p] = Kinds
        /\ pc[q] = Serving /\ joined[q] = {}

\* C7: a cache file that has been written completely is never overwritten or
\* modified afterwards; a run only writes a file for a key that has none.
C7_WriteOnce ==
    [][\A key \in Keys : Readable(files[key]) => files'[key] = files[key]]_vars

\* the count table of `kind` aggregated from the incidents of the 36 months
\* ending at `month`
CubeOf(kind, month) == Aggregate(kind, LoadCrime(month))

\* C8: the cube in the cache file of month m is the aggregation of the
\* incidents loaded for the 36 months ending at m, also when the latest
\* month advances while init_db runs.
C8_KeyMatchesTimeline ==
    \A key \in Keys :
        Readable(files[key]) =>
            read_parquet(files[key]) = CubeOf(key.kind, key.month)

\* C9: two builds from the same incidents give the same cube, and a cube
\* read back from the cache is the cube that a process computed and wrote
\* under that key.
C9_Step ==
    \A p \in Procs, kind \in Kinds :
        (Leaves(p, At("load", kind)) /\ pc'[p] # Failed) =>
            \E q \in Procs :
                /\ kind \in joined[q]
                /\ cache_file[q][kind] = cache_file[p][kind]
                /\ Table(p, kind)' = Table(q, kind)

C9_SameBuild ==
    \A p, q \in Procs, kind \in Kinds :
        (kind \in joined[p] \cap joined[q] /\ timeline[p] = timeline[q]) =>
            Table(p, kind) = Table(q, kind)

Corrupt(f) == f.exists /\ f.open = {} /\ f.torn

\* C10: a cache file that exists but cannot be deserialized is treated as a
\* cache miss: init_db goes on to run the aggregation and start-up does not
\* fail.
C10_CorruptIsMiss ==
    [][\A p \in Procs, kind \in Kinds :
         (Leaves(p, At("load", kind)) /\ Corrupt(files[cache_file[p][kind]]))
             => pc'[p] = At("aggregate", kind)]_vars

\* ----------------------------------------------------- service claims
\* the step is a request served by process p
Serves(p) ==
    /\ <<request, response, status, session>>' # <<request, response, status, session>>
    /\ request'.proc = p

\* the steps of init_db between its start and its end
Building(p) == pc[p].step \in {"check", "aggregate", "write", "writing", "load"}

\* C11: no endpoint that reads a count table runs before init_db has
\* finished creating both count tables: a process goes from empty through
\* building to serving, never back, and serves requests only then.
C11_Step ==
    \A p \in Procs :
        /\ Serves(p) => pc[p] = Serving /\ Past(p, "hex") /\ Past(p, "oa")
        /\ pc'[p] # pc[p] =>
             \/ pc[p] = Idle /\ Building(p)'
             \/ Building(p) /\ (Building(p)' \/ pc'[p] \in {Serving, Failed, Dead})

C11_ServedOnlyWhenBuilt == [][C11_Step]_vars

\* C11 witness: a process answers a count query while another process is
\* still building its tables.
C11_Witness ==
    \E p, q \in Procs :
        /\ request.proc = p /\ status = 200 /\ response # <<>>
        /\ Building(q)

\* C12: with no complete cache file for the current key, a process that
\* finds the file present finds it complete: building is single-writer and
\* a reader sees no artifact or a complete one.
C12_ReaderSeesComplete ==
    [][\A p \in Procs, kind \in Kinds :
         (Leaves(p, At("check", kind)) /\ files[CacheKey(kind, latest)].exists)
             => Readable(files[CacheKey(kind, latest)])]_vars

\* C13: once the latest available month has advanced, a query is not
\* answered from the cube of the earlier month.  Stated for a process whose
\* start-up ran within one month.
C13_NeverStale ==
    [][\A p \in Procs :
         (/\ Serves(p)
          /\ status' = 200
          /\ \A kind \in Kinds : cache_file[p][kind].month = timeline[p])
             => timeline[p] = latest]_vars

\* the incidents of month m and category c in crime_data of process p that
\* lie within the hex grid
Covered(p, m, c) ==
    Copies({ t \in BagToSet(crime_data[p]) :
               t.month = m /\ t.crime_type = c /\ HexesAt(t.loc) # {} },
           crime_data[p])

\* C14: in a hex cube that a process aggregated, the counts of the units of
\* a (month, category) add up to the number of its incidents of that month
\* and category within the grid: no incident is counted twice.
C14_Partition ==
    \A p \in Procs :
        (Past(p, "hex") /\ "hex" \in joined[p]) =>
            \A m \in Timeline(timeline[p]), c \in CrimeType :
                SumCount({ r \in crime_counts_hex[p] :
                             /\ r.month = m /\ r.crime_type = c
                             /\ r.spatial_unit # NULL }) = Covered(p, m, c)

\* C15: every entry of a count cube is keyed by a unit of its catalog: an
\* incident outside every unit contributes no entry.
C15_NoNullEntry ==
    \A p \in Procs :
        /\ \A r \in crime_counts_hex[p] : r.spatial_unit \in hex200
        /\ \A r \in crime_counts_oa[p] : r.spatial_unit \in OA21_boundaries

\* C16: init_db builds the incident table for the 36 months ending at the
\* latest available month, and every record of the table has a category of
\* the allowlist and a month among those 36.
C16_Step ==
    \A p \in Procs : Leaves(p, Idle) => timeline'[p] = latest

C16_Records ==
    \A p \in Procs :
        \A t \in BagToSet(crime_data[p]) :
            /\ t.crime_type \in {"burglary", "robbery"}
            /\ timeline[p] - 35 <= t.month /\ t.month <= timeline[p]

C16_Ingestion == [][C16_Step]_vars /\ []C16_Records

\* C16 witness: a process has loaded incidents although the files hold a
\* record of another category within its months and a record of a month
\* before them.
C16_Witness ==
    \E p \in Procs :
        /\ crime_data[p] # EmptyBag
        /\ \E t \in BagToSet(RawData) :
             t.crime_type \notin CrimeType /\ t.month \in Timeline(timeline[p])
        /\ \E t \in BagToSet(RawData) :
             t.crime_type \in CrimeType /\ t.month < timeline[p] - 35

\* the months of an accepted /hotspots request, numbered and in list order
UsedMonths == [i \in 1..Len(request.months) |->
                 12 * request.months[i].year + request.months[i].month - 1]

\* the number of the month an accepted /hotspots request names
NamedMonth == 12 * parse_str(request.month).year + parse_str(request.month).month - 1

\* C17 (original): the months used for reference month M and lookback L are
\* the L calendar months M-L+1 .. M, each valid, none repeated or skipped,
\* in chronological order.
C17_Chronological ==
    IsHotspots =>
        /\ Len(request.months) = request.lookback
        /\ \A i \in 1..Len(request.months) :
             /\ request.months[i].month \in 1..12
             /\ UsedMonths[i] = NamedMonth - request.lookback + i

\* C17 (amended): the months used are the L calendar months M-L+1 .. M, each
\* valid, none repeated or skipped, listed from M backwards.
C17_NewestFirst ==
    IsHotspots =>
        /\ Len(request.months) = request.lookback
        /\ \A i \in 1..Len(request.months) :
             /\ request.months[i].month \in 1..12
             /\ request.months[i].year \in 0..9999
             /\ MonthPattern(MonthStr(request.months[i]))
             /\ UsedMonths[i] = NamedMonth - (i - 1)

\* C17 witness: a window of twelve months that starts in the year before
\* the reference month's.
C17_Witness ==
    /\ IsHotspots
    /\ request.lookback = 12
    /\ request.months[12].year = request.months[1].year - 1
    /\ request.months[12].month = request.months[1].month + 1

\* the strings YYYY-MM with a month part 01..12, for the years of the model
WellFormedMonths ==
    { MonthStr(Month(y, m)) :
      y \in ((Month0 \div 12) - 1)..((Month0 \div 12) + 1), m \in 1..12 }

\* C18: a /hotspots request with n_hotspots < 1, lookback outside 1..12 or
\* a month not of the form YYYY-MM is answered with an error, and no
\* ranking query is run for it.
C18_Rejected ==
    (/\ request.endpoint = "hotspots"
     /\ \/ request.n_hotspots < 1
        \/ request.lookback < 1
        \/ request.lookback > 12
        \/ request.month \notin WellFormedMonths)
        => /\ status = 400
           /\ response = ErrorBody("Invalid input")
           /\ request.query = "none"
           /\ request.months = <<>>

\* C18 witness: a request rejected for its lookback alone, and the cube it
\* would have been run on is not empty.
C18_Witness ==
    /\ request.endpoint = "hotspots"
    /\ status = 400
    /\ request.lookback = 13
    /\ request.n_hotspots >= 1
    /\ request.month \in WellFormedMonths
    /\ crime_counts_hex[request.proc] # {}

\* C19: a request, answered or refused, leaves the tables of every process
\* and the cache as they were; the tables of a serving process never change,
\* so the answer last given is the answer the same request gets now.
C19_Step ==
    /\ <<request, response, status, session>>' # <<request, response, status, session>>
         => UNCHANGED dbvars
    /\ \A p \in Procs :
         pc[p] = Serving =>
             /\ crime_data'[p] = crime_data[p]
             /\ crime_counts_hex'[p] = crime_counts_hex[p]
             /\ crime_counts_oa'[p] = crime_counts_oa[p]

C19_SameAnswer ==
    status = 200 =>
        /\ request.endpoint = "hotspots" =>
             HotspotsResponses(request.proc, request.force, request.category,
                               request.months, request.n_hotspots) = {response}
        /\ request.endpoint = "hex_counts" =>
             Range(response) = HEX_COUNTS(crime_counts_hex[request.proc],
                                          request.force, request.category)
        /\ request.endpoint = "census_counts" =>
             Range(response) = CENSUS_COUNTS(crime_counts_oa[request.proc],
                                             request.force, request.category)

C19_ReadOnly == [][C19_Step]_vars /\ []C19_SameAnswer

\* C19 witness: a refused request, on a process whose tables hold rows,
\* while another process is building.
C19_Witness ==
    \E q \in Procs :
        /\ status = 400
        /\ crime_counts_oa[request.proc] # {}
        /\ crime_counts_hex[request.proc] # {}
        /\ Building(q)

\* C20: a force-scoped /hotspots or /hex_counts request that passes
\* validation and names a force without a boundary is answered with the
\* error RegionNotFound.
C20_RegionNotFound ==
    (/\ request.endpoint \in {"hotspots", "hex_counts"}
     /\ request.query # "none"
     /\ request.force \notin force_boundaries \cup {NoForce})
        => status = 400 /\ response = ErrorBody("RegionNotFound")

\* ====================================================== the Streamlit app
\* ---------------------------------------------------- itrx iterators (Itr)
\* An iterator is the sequence of the items it still yields; a month is its
\* number 12 * year + month - 1, and Month + k is the number plus k.

\* Python's None; `if prediction_slice:` takes a tuple of months as true.
None == <<>>

Last(s) == s[Len(s)]

\* Itr(monthgen(end, backwards=True)).take(n).rev(): the n months that end
\* with `end`, oldest first
MonthsUpTo(end, n) == [i \in 1..n |-> end - n + i]

\* Itr(monthgen(start)).take(n): the n months from `start` on
MonthsFrom(start, n) == [i \in 1..n |-> start + i - 1]

RECURSIVE rolling(_, _)
\* .rolling(n): the next n items as one window, then the windows of the
\* iterator advanced by one item; it ends when fewer than n items are left
rolling(s, n) ==
    IF Len(s) < n THEN <<>>
    ELSE <<SubSeq(s, 1, n)>> \o rolling(Tail(s), n)

RECURSIVE step_by(_, _)
\* .step_by(k): the next item, then every k-th item after it
step_by(s, k) ==
    IF s = <<>> THEN <<>>
    ELSE <<Head(s)>> \o step_by(SubSeq(s, k + 1, Len(s)), k)

\* .peek(): the next item, which stays in the iterator
peek(s) == s[1]

\* (mutant) nothing is appended
chainDropped(s, t) == s

\* .chain(t)
chain(s, t) == s \o t

\* .zip(t): pairs, as many as the shorter iterator has items
zip(s, t) ==
    [i \in 1..(IF Len(s) <= Len(t) THEN Len(s) ELSE Len(t)) |-> <<s[i], t[i]>>]

\* ------------------------------------------------------ the Hotspots page
\* The API service as the Streamlit specifications leave it: not started.
ServiceIdle ==
    /\ files = [k \in Keys |-> Absent]
    /\ pc = [p \in Procs |-> Idle]
    /\ timeline = [p \in Procs |-> 0]
    /\ crime_data = [p \in Procs |-> EmptyBag]
    /\ cache_file = [p \in Procs |-> [k \in Kinds |-> NoKey]]
    /\ joined = [p \in Procs |-> {}]
    /\ crime_counts_hex = [p \in Procs |-> {}]
    /\ crime_counts_oa = [p \in Procs |-> {}]
    /\ request = NoRequest
    /\ response = <<>>
    /\ status = 0

servicevars == <<files, pc, timeline, crime_data, cache_file, joined,
                 crime_counts_hex, crime_counts_oa, request, response, status>>

\* The options of the three select_sliders
WindowOptions == {1, 3, 6, 12}
PredictionOptions == {1, 3, 6, 12}
UpdateOptions == {1, 2, 3, 6}

\* What the hex_counts endpoint can answer for the force: per unit, two
\* incidents in the first month of the timeline only, or one incident in
\* every month. A month's column is named by the month's number, which
\* stands for its label str(m) in the rows and in the page alike.
Profiles == {"first", "every"}

HexCountRows(profile, end) ==
    LET months == MonthsUpTo(end, N_MONTHS)
    IN  { [spatial_unit |-> u, month |-> months[1], count |-> 2] :
            u \in { v \in DOMAIN profile : profile[v] = "first" } }
        \cup
        { [spatial_unit |-> r[1], month |-> r[2], count |-> 1] :
            r \in { v \in DOMAIN profile : profile[v] = "every" }
                  \X Range(months) }

\* get_counts: one row per unit and one column per month of the rows, a
\* cell without a row filled with 0
get_counts(rows) ==
    [u \in { r.spatial_unit : r \in rows } |->
        [c \in { r.month : r \in rows } |->
            LET cell == { r \in rows : r.spatial_unit = u /\ r.month = c }
            IN  IF cell = {} THEN 0 ELSE (CHOOSE r \in cell : TRUE).count]]

RECURSIVE SumMonths(_, _)
\* counts[months].sum(axis=1), for one row of counts
SumMonths(row, months) ==
    IF months = <<>> THEN 0
    ELSE row[Head(months)] + SumMonths(row, Tail(months))

\* .sort_values(ascending=False): by sum, largest first. The sort is not a
\* stable one and has no second key: units with equal sums come in the
\* order the sort leaves them in, which `tie` stands for (by ascending or by
\* descending position in the index).
sort_values(sums, tie) ==
    CHOOSE s \in Orderings({ [key |-> <<Desc(sums[u]),
                                        IF tie = "asc" THEN u ELSE Desc(u)>>,
                              row |-> u] : u \in DOMAIN sums }) : TRUE

\* (mutant) the month of the first item itself starts the predictions
PredictionTimelineOverlapping(tl, window, prediction_window, update) ==
    chain(step_by(rolling(MonthsFrom(Last(peek(tl)), N_MONTHS - window),
                          prediction_window), update),
          [i \in 1..prediction_window |-> None])

\* Hotspots.py lines 139-145
PredictionTimeline(tl, window, prediction_window, update) ==
    chain(step_by(rolling(MonthsFrom(Last(peek(tl)) + 1, N_MONTHS - window),
                          prediction_window), update),
          [i \in 1..prediction_window |-> None])

\* (mutant) the first window is not yielded
PageTimelineSkipsFirst(end, window, update) ==
    step_by(Tail(rolling(MonthsUpTo(end, N_MONTHS), window)), update)

\* Hotspots.py lines 133-135
PageTimeline(end, window, update) ==
    step_by(rolling(MonthsUpTo(end, N_MONTHS), window), update)

\* One run of the page script up to the loop of line 155: the sliders'
\* values, the counts, the two iterators, and nothing ranked yet. i is the
\* number of pairs the loop has taken from the zipped iterators.
HotspotsRun(window, prediction_window, update, n, counts, tie) ==
    [page |-> "Hotspots", window |-> window,
     prediction_window |-> prediction_window, update |-> update,
     n_hotspots |-> n, counts |-> counts, tie |-> tie,
     timeline |-> PageTimeline(latest, window, update),
     prediction_timeline |->
         PredictionTimeline(PageTimeline(latest, window, update), window,
                            prediction_window, update),
     i |-> 0, slice |-> None, prediction_slice |-> None,
     hotspots |-> <<>>, in_hotspots |-> 0, predicted |-> 0,
     ranks |-> [u \in DOMAIN counts |-> 0],
     done |-> FALSE, error |-> "", n_obs |-> 0,
     frequency |-> [u \in DOMAIN counts |-> 0]]

\* timeline.zip(prediction_timeline) of the run
Zipped == zip(session.timeline, session.prediction_timeline)

\* The page is opened for a force that has an incident in every month.
InitHotspots ==
    /\ latest = Month0
    /\ ServiceIdle
    /\ \E profile \in [1..NUnits -> Profiles] :
          /\ \E u \in 1..NUnits : profile[u] = "every"
          /\ LET counts == get_counts(HexCountRows(profile, Month0))
             IN  \E window \in WindowOptions,
                    prediction_window \in PredictionOptions,
                    update \in UpdateOptions, n \in 1..MaxN,
                    tie \in {"asc", "desc"} :
                      session = HotspotsRun(window, prediction_window, update,
                                            n, counts, tie)

\* One pass of the loop of lines 155-170
HotspotsSlice ==
    /\ session.page = "Hotspots"
    /\ ~session.done
    /\ session.i < Len(Zipped)
    /\ LET pair == Zipped[session.i + 1]
           months == pair[1]
           pred_months == pair[2]
           counts == session.counts
           columns == UNION { DOMAIN counts[u] : u \in DOMAIN counts }
       IN  IF ~(Range(months) \cup Range(pred_months) \subseteq columns)
           THEN session' = [session EXCEPT !.done = TRUE, !.error = "KeyError"]
           ELSE LET sums == [u \in DOMAIN counts |-> SumMonths(counts[u], months)]
                    ranked == sort_values(sums, session.tie)
                    head == Limit(ranked, session.n_hotspots)
                    pred_counts == [u \in DOMAIN counts |->
                                       SumMonths(counts[u], pred_months)]
                IN  session' =
                      [session EXCEPT
                         !.i = @ + 1,
                         !.slice = pair[1],
                         !.prediction_slice = pair[2],
                         !.hotspots = head,
                         !.in_hotspots =
                             SumMonths(sums, head),
                         !.predicted =
                             IF pair[2] # None
                             THEN SumMonths(pred_counts, head) ELSE 0,
                         !.ranks = [u \in DOMAIN counts |->
                                      IF u \in Range(head)
                                      THEN session.ranks[u] + 1
                                      ELSE session.ranks[u]]]
    /\ UNCHANGED <<latest, servicevars>>

\* Lines 173-186, after the loop: n_obs and the frequency of each unit, in
\* tenths of a percent
HotspotsFinish ==
    /\ session.page = "Hotspots"
    /\ ~session.done
    /\ session.i = Len(Zipped)
    /\ LET n_obs == (N_MONTHS - session.window) \div session.update + 1
       IN  session' = [session EXCEPT
                         !.done = TRUE,
                         !.n_obs = n_obs,
                         !.frequency =
                             [u \in DOMAIN session.ranks |->
                                (2000 * session.ranks[u] + n_obs)
                                    \div (2 * n_obs)]]
    /\ UNCHANGED <<latest, servicevars>>

NextHotspots == HotspotsSlice \/ HotspotsFinish

SpecHotspots == InitHotspots /\ [][NextHotspots]_vars

\* The months of the page's timeline, oldest first
AllMonths == MonthsUpTo(latest, N_MONTHS)

OnHotspots == session.page = "Hotspots"

\* The sums of the slice the loop has just ranked
SliceSums ==
    [u \in DOMAIN session.counts |->
        SumMonths(session.counts[u], session.slice)]

\* C21: the timeline of the Hotspots page is exactly the slices that start
\* at month indices 0, update, 2*update, ..., each of `window` consecutive
\* months in chronological order, up to the last start that leaves `window`
\* months; over 12 months a window of 3 stepped by 1 gives 10 slices.
C21_Slices ==
    /\ Len(step_by(rolling(MonthsUpTo(Month0, 12), 3), 1)) = 10
    /\ OnHotspots =>
         LET t == session.timeline
             w == session.window
             k == session.update
         IN  /\ Len(t) >= 1
             /\ \A j \in 1..Len(t) :
                    t[j] = [x \in 1..w |-> AllMonths[(j - 1) * k + x]]
             /\ (Len(t) - 1) * k + w <= N_MONTHS
             /\ Len(t) * k + w > N_MONTHS

\* C21 witness: a 2-month update of a 3-month window, whose second slice
\* starts with the third month of the first.
C21_Witness ==
    /\ OnHotspots
    /\ session.window = 3 /\ session.update = 2
    /\ session.i = 2
    /\ session.timeline[1] = SubSeq(AllMonths, 1, 3)
    /\ session.slice = SubSeq(AllMonths, 3, 5)

\* C22: the hotspots of a slice are the first n_hotspots units in the order
\* of descending sum and, between equal sums, ascending unit id.
C22_TieById ==
    (OnHotspots /\ session.i >= 1) =>
        session.hotspots =
            Limit(sort_values(SliceSums, "asc"), session.n_hotspots)

\* C23: every unit recorded as a hotspot of a slice has a sum of at least 1
\* in that slice.
C23_NoPadding ==
    (OnHotspots /\ session.i >= 1) =>
        \A u \in Range(session.hotspots) : SliceSums[u] >= 1

\* C26: the prediction slice paired with a lookback slice is None or the
\* prediction_window consecutive months right after the lookback slice's
\* last month, all within the timeline (none without a column of counts);
\* it is None only when fewer than prediction_window months remain.
C26_PredictionSlice ==
    OnHotspots =>
        /\ session.error = ""
        /\ session.i >= 1 =>
             LET p == session.prediction_slice
                 last == Last(session.slice)
             IN  /\ \/ p = None
                    \/ /\ p = [x \in 1..session.prediction_window |-> last + x]
                       /\ Last(p) <= Last(AllMonths)
                 /\ p = None =>
                      Last(AllMonths) - last < session.prediction_window

\* C26 witness: the last prediction slice there is, ending with the last
\* month of the timeline, at a 6-month update.
C26_Witness ==
    /\ OnHotspots /\ session.i >= 2 /\ session.update = 6
    /\ session.prediction_slice # None
    /\ Last(session.prediction_slice) = Last(AllMonths)

\* C27: the loop processes exactly n_obs = (36 - window) // update + 1
\* slices, a unit's hotspot count never exceeds the number of slices
\* processed, and its frequency never exceeds 100%.
C27_Frequency ==
    OnHotspots =>
        /\ \A u \in DOMAIN session.ranks : session.ranks[u] <= session.i
        /\ (session.done /\ session.error = "") =>
             /\ session.i = session.n_obs
             /\ session.n_obs = Len(session.timeline)
             /\ \A u \in DOMAIN session.ranks :
                    /\ session.ranks[u] <= session.n_obs
                    /\ session.frequency[u] <= 1000

\* C27 witness: a finished run in which a unit was a hotspot of every slice
\* and the prediction timeline ran out of months before the timeline did.
C27_Witness ==
    /\ OnHotspots /\ session.done
    /\ \E u \in DOMAIN session.ranks : session.frequency[u] = 1000
    /\ session.prediction_slice = None
    /\ session.window = 1 /\ session.prediction_window = 12

\* ------------------------------------------------------------------ dates
\* datetime.date
Date(y, m, d) == [year |-> y, month |-> m, day |-> d]

DaysInMonth(y, m) ==
    LET leap == (y % 4 = 0 /\ y % 100 # 0) \/ y % 400 = 0
    IN  IF m = 2 THEN (IF leap THEN 29 ELSE 28)
        ELSE IF m \in {4, 6, 9, 11} THEN 30 ELSE 31

NextDay(d) ==
    IF d.day < DaysInMonth(d.year, d.month) THEN Date(d.year, d.month, d.day + 1)
    ELSE IF d.month < 12 THEN Date(d.year, d.month + 1, 1)
    ELSE Date(d.year + 1, 1, 1)

PrevDay(d) ==
    IF d.day > 1 THEN Date(d.year, d.month, d.day - 1)
    ELSE IF d.month > 1
         THEN Date(d.year, d.month - 1, DaysInMonth(d.year, d.month - 1))
    ELSE Date(d.year - 1, 12, 31)

RECURSIVE PlusDays(_, _)
PlusDays(d, k) ==
    IF k = 0 THEN d
    ELSE IF k < 0 THEN PlusDays(PrevDay(d), k + 1)
    ELSE PlusDays(NextDay(d), k - 1)

\* Month - k: the month k months before m
MonthMinus(m, k) == MonthOfIndex(MonthIndex(m) - k)

\* d + relativedelta(months=months, days=days): the months are added first,
\* the day cut to the length of the month reached, then the days
relativedelta(d, months, days) ==
    LET m == MonthMinus(Month(d.year, d.month), 0 - months)
        len == DaysInMonth(m.year, m.month)
    IN  PlusDays(Date(m.year, m.month, IF d.day <= len THEN d.day ELSE len),
                 days)

\* (mutant) the end date without the day taken off
date_range_to_next_first(start_month, n_months) ==
    LET start_date == Date(start_month.year, start_month.month, 1)
    IN  <<start_date, relativedelta(start_date, n_months, 0)>>

\* common.py lines 102-105
date_range(start_month, n_months) ==
    LET start_date == Date(start_month.year, start_month.month, 1)
    IN  <<start_date, relativedelta(start_date, n_months, 0 - 1)>>

\* ------------------------------------------------- the Interventions page
LookbackOptions == {6, 12, 18, 24}
LookforwardOptions == {1, 3, 12}
HotspotsOptions == {1, 2, 5, 20, 50}

\* MONTHS (line 60) for the latest month the app has cached: the labels of
\* the 36 months, oldest first
MONTHS(cached) ==
    LET months == MonthsUpTo(cached, N_MONTHS)
    IN  [i \in 1..N_MONTHS |-> MonthStr(MonthOfIndex(months[i]))]

\* MONTHS[-12::lookforward]
RefOptions(cached, lookforward) ==
    step_by(SubSeq(MONTHS(cached), N_MONTHS - 11, N_MONTHS), lookforward)

\* Lines 241-242, for the session's reference date
Periods(ref_date, lookback, lookforward) ==
    LET ref == parse_str(ref_date)
        lb == date_range(MonthMinus(ref, lookback), lookback)
        lf == date_range(ref, lookforward)
    IN  [lb_start |-> lb[1], lb_end |-> lb[2],
         lf_start |-> lf[1], lf_end |-> lf[2]]

\* One run of main() (lines 63-261) on the session state `old`, the widgets
\* returning lookback, lookforward, ref_date, constrain and n (hotspots). The
\* reference-date slider is given the session's ref_date as its value and
\* raises when its options do not hold it: the run ends there, with the
\* two assignments before it made.
InterventionsRun(old, lookback, lookforward, ref_date, constrain, n) ==
    LET options == RefOptions(old.latest_month, lookforward)
    IN  IF lookforward # 12 /\ old.ref_date \notin Range(options)
        THEN [old EXCEPT !.lookback = lookback, !.lookforward = lookforward,
                         !.error = "ValueError",
                         !.periods = [lb_start |-> None, lb_end |-> None,
                                      lf_start |-> None, lf_end |-> None]]
        ELSE LET ref == IF lookforward # 12 THEN ref_date
                        ELSE MONTHS(old.latest_month)[N_MONTHS - 11]
             IN  [old EXCEPT !.lookback = lookback,
                             !.lookforward = lookforward,
                             !.ref_date = ref,
                             !.constrain = constrain,
                             !.hotspots = n,
                             !.error = "",
                             !.periods = Periods(ref, lookback, lookforward)]

\* The session defaults of lines 64-73, for an app whose cached
\* latest_month() is `cached`
InterventionsDefaults(cached) ==
    [page |-> "Interventions", latest_month |-> cached,
     lookback |-> 6, lookforward |-> 3,
     ref_date |-> MONTHS(cached)[N_MONTHS - 11],
     constrain |-> FALSE, hotspots |-> 1,
     error |-> "",
     periods |-> [lb_start |-> None, lb_end |-> None,
                  lf_start |-> None, lf_end |-> None]]

\* The page is opened: the first run, every widget at its session default.
\* The app was started in one of the last StartMonths + 1 months.
InitInterventions ==
    /\ latest \in (Month0 - StartMonths)..Month0
    /\ ServiceIdle
    /\ session =
         LET s == InterventionsDefaults(latest)
         IN  InterventionsRun(s, s.lookback, s.lookforward, s.ref_date,
                              s.constrain, s.hotspots)

\* The user moves the lookback slider (lines 112-117)
SetLookback ==
    /\ session.page = "Interventions"
    /\ \E v \in LookbackOptions \ {session.lookback} :
          session' = InterventionsRun(session, v, session.lookforward,
                                      session.ref_date, session.constrain,
                                      session.hotspots)
    /\ UNCHANGED <<latest, servicevars>>

\* The user moves the look-forward slider (lines 119-124)
SetLookforward ==
    /\ session.page = "Interventions"
    /\ \E v \in LookforwardOptions \ {session.lookforward} :
          session' = InterventionsRun(session, session.lookback, v,
                                      session.ref_date, session.constrain,
                                      session.hotspots)
    /\ UNCHANGED <<latest, servicevars>>

\* The user moves the reference-date slider (lines 126-132), which the last
\* run has shown
SetRefDate ==
    /\ session.page = "Interventions"
    /\ session.error = ""
    /\ session.lookforward # 12
    /\ \E v \in Range(RefOptions(session.latest_month, session.lookforward))
                \ {session.ref_date} :
          session' = InterventionsRun(session, session.lookback,
                                      session.lookforward, v,
                                      session.constrain, session.hotspots)
    /\ UNCHANGED <<latest, servicevars>>

\* The user ticks or unticks the checkbox (lines 137-139), which the last
\* run has shown
SetConstrain ==
    /\ session.page = "Interventions"
    /\ session.error = ""
    /\ session' = InterventionsRun(session, session.lookback,
                                   session.lookforward, session.ref_date,
                                   ~session.constrain, session.hotspots)
    /\ UNCHANGED <<latest, servicevars>>

\* The user moves the hotspots slider (lines 141-146), which the last run
\* has shown
SetHotspots ==
    /\ session.page = "Interventions"
    /\ session.error = ""
    /\ \E v \in HotspotsOptions \ {session.hotspots} :
          session' = InterventionsRun(session, session.lookback,
                                      session.lookforward, session.ref_date,
                                      session.constrain, v)
    /\ UNCHANGED <<latest, servicevars>>

NextInterventions ==
    \/ SetLookback
    \/ SetLookforward
    \/ SetRefDate
    \/ SetConstrain
    \/ SetHotspots

SpecInterventions == InitInterventions /\ [][NextInterventions]_vars

OnInterventions == session.page = "Interventions"

\* The day count of a date is not needed: two dates compare by year, month
\* and day.
DateLeq(a, b) ==
    \/ a.year < b.year
    \/ a.year = b.year /\ a.month < b.month
    \/ a.year = b.year /\ a.month = b.month /\ a.day <= b.day

\* C28: the reference date of the session state is one of the options
\* offered for the session's look-forward value.
C28_RefDateOffered ==
    OnInterventions =>
        session.ref_date \in
            { MONTHS(session.latest_month)[N_MONTHS - 12 + k] :
                k \in { j \in 1..12 : (j - 1) % session.lookforward = 0 } }

\* C29: the periods the page reports are adjacent and do not overlap: the
\* lookback period is the `lookback` months that end the day before the
\* reference month starts, the look-forward period the `lookforward` months
\* from the first day of the reference month, and both lie within the
\* timeline.
C29_Periods ==
    (OnInterventions /\ session.error = "") =>
        LET p == session.periods
            ref == MonthIndex(parse_str(session.ref_date))
            first == MonthOfIndex(session.latest_month - N_MONTHS + 1)
            last == MonthOfIndex(session.latest_month)
            MonthOf(d) == 12 * d.year + d.month - 1
        IN  /\ p.lf_start = Date(ref \div 12, (ref % 12) + 1, 1)
            /\ NextDay(p.lb_end) = p.lf_start
            /\ p.lb_start.day = 1
            /\ MonthOf(p.lb_start) = ref - session.lookback
            /\ MonthOf(p.lb_end) = ref - 1
            /\ MonthOf(p.lf_end) = ref + session.lookforward - 1
            /\ NextDay(p.lf_end).day = 1
            /\ DateLeq(p.lb_start, p.lb_end) /\ DateLeq(p.lf_start, p.lf_end)
            /\ ~DateLeq(p.lf_start, p.lb_end)
            /\ DateLeq(Date(first.year, first.month, 1), p.lb_start)
            /\ DateLeq(p.lf_end, Date(last.year, last.month,
                                      DaysInMonth(last.year, last.month)))

\* C29 witness: the longest periods, which start with the first day and end
\* with the last day of the timeline, the lookback ending on a 29 February.
C29_Witness ==
    /\ OnInterventions /\ session.error = ""
    /\ session.lookback = 24 /\ session.lookforward = 12
    /\ session.periods.lb_start.year = session.periods.lb_end.year - 2
    /\ session.periods.lb_end.month = 2 /\ session.periods.lb_end.day = 29
    /\ MonthIndex(Month(session.periods.lf_end.year,
                        session.periods.lf_end.month)) = session.latest_month

\* ------------------------------------------------------ the Capture page
\* The values of the lookback slider (lines 102-109)
LookbackWindows == 1..12

\* No entry in the cache of cache_crime_data
NotCached == 0

\* The month columns of counts, for crime data loaded for the 36 months that
\* end with `end`
DataMonths(end) == Range(MonthsUpTo(end, N_MONTHS))

\* One run of the page script, lines 20-21 and main() up to line 276, after
\* the callback of a pressed button has set `running`; `play` is what the
\* Play button returns. LATEST_DATE is the core latest_month() of this run;
\* cache_crime_data(force, category) answers from its cache when it has an
\* entry, whatever all_months is now.
CaptureRun(old, lookback_window, running, play) ==
    LET all_months == MonthsUpTo(latest, N_MONTHS)
        cached == IF old.cached = NotCached THEN latest ELSE old.cached
        last == SubSeq(all_months, N_MONTHS - lookback_window + 1, N_MONTHS)
        run == [old EXCEPT !.LATEST_DATE = latest,
                           !.cached = cached,
                           !.lookback_window = lookback_window,
                           !.running = running,
                           !.play_disabled = running,
                           !.stop_disabled = ~running,
                           !.pos = 0]
    IN  IF ~(Range(last) \subseteq DataMonths(cached))
        THEN [run EXCEPT !.script = "done", !.window = None,
                         !.error = "KeyError"]
        ELSE [run EXCEPT !.script = IF play THEN "animating" ELSE "done",
                         !.window = last, !.error = ""]

\* The page is opened: the first run, on a session without `running`
\* (lines 85-86) and an empty cache, with the slider at its default
InitCapture ==
    /\ latest = Month0
    /\ ServiceIdle
    /\ session =
         CaptureRun([page |-> "Capture", LATEST_DATE |-> 0,
                     cached |-> NotCached, lookback_window |-> 1,
                     running |-> FALSE, play_disabled |-> FALSE,
                     stop_disabled |-> TRUE, script |-> "done", pos |-> 0,
                     window |-> None, error |-> ""],
                    1, FALSE, FALSE)

\* Play is pressed (lines 269-271): toggle_running, then the script runs
\* with the button returning True
PressPlay ==
    /\ session.page = "Capture"
    /\ ~session.play_disabled
    /\ session' = CaptureRun(session, session.lookback_window,
                             ~session.running, TRUE)
    /\ UNCHANGED <<latest, servicevars>>

\* Stop is pressed (line 272): toggle_running, then the script runs from
\* the top, which ends the run in progress
PressStop ==
    /\ session.page = "Capture"
    /\ ~session.stop_disabled
    /\ session' = CaptureRun(session, session.lookback_window,
                             ~session.running, FALSE)
    /\ UNCHANGED <<latest, servicevars>>

\* The lookback slider is moved: the script runs from the top, which ends
\* the run in progress
SetLookbackWindow ==
    /\ session.page = "Capture"
    /\ \E v \in LookbackWindows \ {session.lookback_window} :
          session' = CaptureRun(session, v, session.running, FALSE)
    /\ UNCHANGED <<latest, servicevars>>

\* The windows of render_dynamic (line 257)
AnimationWindows ==
    rolling(Tail(MonthsUpTo(session.LATEST_DATE, N_MONTHS)),
            session.lookback_window)

\* One pass of the loop of render_dynamic (lines 257-262)
RenderWindow ==
    /\ session.page = "Capture"
    /\ session.script = "animating"
    /\ session.pos < Len(AnimationWindows)
    /\ LET month_window == AnimationWindows[session.pos + 1]
       IN  session' =
             IF ~session.running THEN [session EXCEPT !.script = "done"]
             ELSE IF ~(Range(month_window) \subseteq DataMonths(session.cached))
             THEN [session EXCEPT !.script = "done", !.error = "KeyError"]
             ELSE [session EXCEPT !.pos = @ + 1, !.window = month_window]
    /\ UNCHANGED <<latest, servicevars>>

\* The loop of render_dynamic has rendered its last window: the run ends
EndAnimation ==
    /\ session.page = "Capture"
    /\ session.script = "animating"
    /\ session.pos = Len(AnimationWindows)
    /\ session' = [session EXCEPT !.script = "done"]
    /\ UNCHANGED <<latest, servicevars>>

NextCapture ==
    \/ PressPlay
    \/ PressStop
    \/ SetLookbackWindow
    \/ RenderWindow
    \/ EndAnimation
    \/ AdvanceMonth

SpecCapture == InitCapture /\ [][NextCapture]_vars

OnCapture == session.page = "Capture"

\* C24: every month of the timeline of a run of the page is a month of the
\* cached crime data the run indexes with it, so no run fails on a month
\* without data.
C24_OneLatestMonth ==
    OnCapture =>
        /\ session.error = ""
        /\ \A i \in 1..N_MONTHS :
               session.LATEST_DATE - N_MONTHS + i
                   \in DataMonths(session.cached)

\* C30: Play is enabled exactly when the running flag is false and Stop
\* exactly when it is true, a window is rendered only while the flag is
\* true, and the flag is true only while an animation is in progress.
C30_RunningFlag ==
    OnCapture =>
        /\ session.play_disabled = session.running
        /\ session.stop_disabled = ~session.running
        /\ session.script = "animating" => session.running
        /\ session.running => session.script = "animating"

\* -------------------------------------------------- the Consistency page
\* counts (line 115): per unit and month of the loaded data, the incidents
\* of a unit that has two in the first month only or one in every month
MonthlyCounts(profile, end) ==
    [u \in DOMAIN profile |->
        [m \in DataMonths(end) |->
            IF profile[u] = "every" THEN 1
            ELSE IF m = end - N_MONTHS + 1 THEN 2 ELSE 0]]

RECURSIVE AreaSum(_)
\* features.area_km2.sum()
AreaSum(S) ==
    IF S = {} THEN 0
    ELSE LET u == CHOOSE x \in S : TRUE IN Area(u) + AreaSum(S \ {u})

\* counts.T.rolling(n): one window per month, the months up to it, at most
\* n of them
DataFrameRolling(months, n) ==
    [i \in 1..Len(months) |->
        SubSeq(months, IF i > n THEN i - n + 1 ELSE 1, i)]

\* .sort_values(by="density"): ascending mean / area; equal densities are
\* left in the order of the index
ByDensity(sums) ==
    CHOOSE s \in Orderings({ [key |-> <<(sums[u] * AreaScale) \div Area(u), u>>,
                              row |-> u] : u \in DOMAIN sums }) : TRUE

RECURSIVE cumsum(_)
\* area_km2.cumsum() along the sorted units
cumsum(s) ==
    IF s = <<>> THEN <<>>
    ELSE LET before == cumsum(SubSeq(s, 1, Len(s) - 1))
         IN  Append(before, (IF before = <<>> THEN 0 ELSE Last(before))
                            + Area(Last(s)))

\* hit (line 200): the units past the area threshold that have an incident
\* in the window
Hit(sums, area_threshold) ==
    LET sorted == ByDensity(sums)
        cum == cumsum(sorted)
    IN  { sorted[i] : i \in { j \in 1..Len(sorted) :
                                /\ cum[j] > area_threshold
                                /\ sums[sorted[j]] > 0 } }

\* (mutant) a hit counted twice
running_total_add_twice(count, hit) ==
    [u \in DOMAIN count |-> count[u] + (IF u \in hit THEN 2 ELSE 0)]

\* running_total["count"] += hit (line 201)
running_total_add(count, hit) ==
    [u \in DOMAIN count |-> count[u] + (IF u \in hit THEN 1 ELSE 0)]

\* get_fill_color (lines 165-170): the green component of each unit drawn
FillGreen(count) ==
    [u \in { v \in DOMAIN count : count[v] > 0 } |-> 255 - count[u] * 7]

\* One run of main() up to line 222 for a slider value, the Run button not
\* pressed: nothing is animated. area_threshold is the value of line 117,
\* the total area less the coverage chosen.
ConsistencyRun(profile, area_threshold, lookback_window) ==
    [page |-> "Consistency", profile |-> profile,
     area_threshold |-> area_threshold,
     lookback_window |-> lookback_window,
     script |-> "done", pos |-> 0, rendered |-> 0,
     count |-> [u \in DOMAIN profile |-> 0],
     green |-> FillGreen([u \in DOMAIN profile |-> 0])]

\* The page is opened for some force and coverage
InitConsistency ==
    /\ latest = Month0
    /\ ServiceIdle
    /\ \E profile \in [1..NUnits -> Profiles],
          coverage \in 1..AreaSum(1..NUnits) :
            session = ConsistencyRun(profile,
                                     AreaSum(1..NUnits) - coverage, 1)

\* The lookback slider is moved (lines 91-98): the script runs from the top
SetConsistencyWindow ==
    /\ session.page = "Consistency"
    /\ \E v \in LookbackWindows \ {session.lookback_window} :
          session' = ConsistencyRun(session.profile,
                                    session.area_threshold, v)
    /\ UNCHANGED <<latest, servicevars>>

\* Run... is pressed (lines 222-225): the script runs from the top and
\* enters render_dynamic (lines 186-189)
PressRun ==
    /\ session.page = "Consistency"
    /\ session' = [session EXCEPT
                     !.script = "animating", !.pos = 0, !.rendered = 0,
                     !.count = [u \in DOMAIN session.profile |-> 0],
                     !.green = FillGreen([u \in DOMAIN session.profile |-> 0])]
    /\ UNCHANGED <<latest, servicevars>>

\* One pass of the loop of render_dynamic (lines 190-212)
RollWindow ==
    /\ session.page = "Consistency"
    /\ session.script = "animating"
    /\ session.pos < N_MONTHS
    /\ LET counts == MonthlyCounts(session.profile, Month0)
           c == DataFrameRolling(MonthsUpTo(Month0, N_MONTHS),
                                 session.lookback_window)[session.pos + 1]
       IN  IF Len(c) < session.lookback_window
           THEN session' = [session EXCEPT !.pos = @ + 1]
           ELSE LET sums == [u \in DOMAIN counts |-> SumMonths(counts[u], c)]
                    hit == Hit(sums, session.area_threshold)
                    total == running_total_add(session.count, hit)
                IN  session' = [session EXCEPT
                                  !.pos = @ + 1,
                                  !.rendered = @ + 1,
                                  !.count = total,
                                  !.green = FillGreen(total)]
    /\ UNCHANGED <<latest, servicevars>>

\* The loop has taken the last window: the run ends
FinishRun ==
    /\ session.page = "Consistency"
    /\ session.script = "animating"
    /\ session.pos = N_MONTHS
    /\ session' = [session EXCEPT !.script = "done"]
    /\ UNCHANGED <<latest, servicevars>>

NextConsistency ==
    \/ SetConsistencyWindow
    \/ PressRun
    \/ RollWindow
    \/ FinishRun

SpecConsistency == InitConsistency /\ [][NextConsistency]_vars

OnConsistency == session.page = "Consistency"

\* C25: the hit count of a unit never exceeds the number of windows
\* rendered, which never exceeds 36, and the green component 255 - 7 * count
\* of every unit drawn is not negative.
C25_CountInRange ==
    OnConsistency =>
        /\ session.rendered <= 36
        /\ \A u \in DOMAIN session.count :
               /\ session.count[u] >= 0
               /\ session.count[u] <= session.rendered
               /\ session.count[u] <= 36
        /\ \A u \in DOMAIN session.green : session.green[u] >= 0

\* C25 witness: with a lookback of 1 a unit was hit in every one of the 36
\* windows, while another was hit in none.
C25_Witness ==
    /\ OnConsistency
    /\ session.lookback_window = 1
    /\ session.script = "done"
    /\ \E u, v \in DOMAIN session.count :
          /\ session.count[u] = 36 /\ session.green[u] = 3
          /\ session.count[v] = 0

====
